---------------------------- MODULE Spec2Model ----------------------------
(***************************************************************************)
(* A model of django/db/migrations/optimizer.py: MigrationOptimizer.       *)
(*                                                                         *)
(* Operations are records tagged by "kind".  Names are sequences of        *)
(* character codes so that str.lower() is computed, not assumed.           *)
(***************************************************************************)
EXTENDS Integers, Sequences, FiniteSets, TLC

VARIABLES pc, input, operations, result, iterations, schema, args, reduced, threads

vars == <<pc, input, operations, result, iterations, schema, args, reduced, threads>>

(***************************************************************************)
(* Bounds of the model.                                                    *)
(***************************************************************************)
MaxLen == 3
MaxChain == 4
MaxRenames == 3
MaxNet == 3
MaxIter == 16
MaxConc == 2

(***************************************************************************)
(* Names and str.lower().                                                  *)
(***************************************************************************)
lower(name) ==
    [k \in 1..Len(name) |-> IF name[k] \in 65..90 THEN name[k] + 32 ELSE name[k]]

Pony == <<80, 111, 110, 121>>
pony == <<112, 111, 110, 121>>
Horse == <<72, 111, 114, 115, 101>>
horse == <<104, 111, 114, 115, 101>>
Equine == <<69, 113, 117, 105, 110, 101>>
Other == <<79, 116, 104, 101, 114>>
age == <<97, 103, 101>>
Age == <<65, 103, 101>>
fk == <<102, 107>>
nick == <<110, 105, 99, 107>>
NoName == <<>>

(***************************************************************************)
(* Field instances: the only attribute the optimizer's collaborators look  *)
(* at is the relation target (NoName for a plain column).                  *)
(***************************************************************************)
IntegerField == [type |-> "IntegerField", to |-> NoName]
CharField == [type |-> "CharField", to |-> NoName]
ForeignKey(to) == [type |-> "ForeignKey", to |-> to]
FieldDefs == {IntegerField, CharField}

(***************************************************************************)
(* The operation classes of django.db.migrations used by the optimizer.    *)
(***************************************************************************)
CreateModel(name, fields, options, bases) ==
    [kind |-> "CreateModel", name |-> name, fields |-> fields,
     options |-> options, bases |-> bases]
DeleteModel(name) == [kind |-> "DeleteModel", name |-> name]
AlterModelTable(name, table) ==
    [kind |-> "AlterModelTable", name |-> name, table |-> table]
AlterUniqueTogether(name, unique_together) ==
    [kind |-> "AlterUniqueTogether", name |-> name, unique_together |-> unique_together]
AlterIndexTogether(name, index_together) ==
    [kind |-> "AlterIndexTogether", name |-> name, index_together |-> index_together]
RenameModel(old_name, new_name) ==
    [kind |-> "RenameModel", old_name |-> old_name, new_name |-> new_name]
AddField(model_name, name, field) ==
    [kind |-> "AddField", model_name |-> model_name, name |-> name, field |-> field]
AlterField(model_name, name, field) ==
    [kind |-> "AlterField", model_name |-> model_name, name |-> name, field |-> field]
RemoveField(model_name, name) ==
    [kind |-> "RemoveField", model_name |-> model_name, name |-> name]
RenameField(model_name, old_name, new_name) ==
    [kind |-> "RenameField", model_name |-> model_name,
     old_name |-> old_name, new_name |-> new_name]

Kinds ==
    {"CreateModel", "DeleteModel", "AlterModelTable", "AlterUniqueTogether",
     "AlterIndexTogether", "RenameModel", "AddField", "AlterField",
     "RemoveField", "RenameField"}

\* isinstance(op, cls) for the concrete operation classes.
isinstance(op, kinds) == op.kind \in kinds

(***************************************************************************)
(* reduce() answers None or a list: the two are kept apart.                *)
(***************************************************************************)
None == [match |-> FALSE, ops |-> <<>>]
Replacement(ops) == [match |-> TRUE, ops |-> ops]

\* [(n, v) for n, v in fields if n.lower() != name.lower()]
RECURSIVE fields_without(_, _)
fields_without(fields, name) ==
    IF fields = <<>> THEN <<>>
    ELSE IF lower(Head(fields)[1]) # lower(name)
         THEN <<Head(fields)>> \o fields_without(Tail(fields), name)
         ELSE fields_without(Tail(fields), name)

reduce_model_create_delete(operation, other) ==
    IF lower(operation.name) = lower(other.name)
    THEN Replacement(<<>>)
    ELSE None

reduce_model_alter_delete(operation, other) ==
    IF lower(operation.name) = lower(other.name)
    THEN Replacement(<<other>>)
    ELSE None

reduce_model_create_rename(operation, other) ==
    IF lower(operation.name) = lower(other.old_name)
    THEN Replacement(<<CreateModel(other.new_name, operation.fields,
                                   operation.options, operation.bases)>>)
    ELSE None

reduce_model_rename_self_exact(operation, other) ==
    IF operation.new_name = other.old_name
    THEN Replacement(<<RenameModel(operation.old_name, other.new_name)>>)
    ELSE None

reduce_model_rename_self(operation, other) ==
    IF lower(operation.new_name) = lower(other.old_name)
    THEN Replacement(<<RenameModel(operation.old_name, other.new_name)>>)
    ELSE None

reduce_create_model_add_field(operation, other) ==
    IF lower(operation.name) = lower(other.model_name)
    THEN Replacement(<<CreateModel(operation.name,
                                   operation.fields \o <<(<<other.name, other.field>>)>>,
                                   operation.options, operation.bases)>>)
    ELSE None

reduce_create_model_alter_field(operation, other) ==
    IF lower(operation.name) = lower(other.model_name)
    THEN LET fields == [k \in 1..Len(operation.fields) |->
                           <<operation.fields[k][1],
                             IF operation.fields[k][1] = other.name THEN other.field
                             ELSE operation.fields[k][2]>>]
         IN Replacement(<<CreateModel(operation.name, fields,
                                      operation.options, operation.bases)>>)
    ELSE None

reduce_create_model_rename_field(operation, other) ==
    IF lower(operation.name) = lower(other.model_name)
    THEN LET fields == [k \in 1..Len(operation.fields) |->
                           <<IF operation.fields[k][1] = other.old_name THEN other.new_name
                             ELSE operation.fields[k][1],
                             operation.fields[k][2]>>]
         IN Replacement(<<CreateModel(operation.name, fields,
                                      operation.options, operation.bases)>>)
    ELSE None

reduce_create_model_remove_field(operation, other) ==
    IF lower(operation.name) = lower(other.model_name)
    THEN Replacement(<<CreateModel(operation.name,
                                   fields_without(operation.fields, other.name),
                                   operation.options, operation.bases)>>)
    ELSE None

reduce_add_field_alter_field(operation, other) ==
    IF /\ lower(operation.model_name) = lower(other.model_name)
       /\ lower(operation.name) = lower(other.name)
    THEN Replacement(<<AddField(operation.model_name, operation.name, other.field)>>)
    ELSE None

reduce_add_field_delete_field(operation, other) ==
    IF /\ lower(operation.model_name) = lower(other.model_name)
       /\ lower(operation.name) = lower(other.name)
    THEN Replacement(<<>>)
    ELSE None

reduce_alter_field_delete_field(operation, other) ==
    IF /\ lower(operation.model_name) = lower(other.model_name)
       /\ lower(operation.name) = lower(other.name)
    THEN Replacement(<<other>>)
    ELSE None

reduce_add_field_rename_field(operation, other) ==
    IF /\ lower(operation.model_name) = lower(other.model_name)
       /\ lower(operation.name) = lower(other.old_name)
    THEN Replacement(<<AddField(operation.model_name, other.new_name, operation.field)>>)
    ELSE None

\* the pair kept in its order
reduce_alter_field_rename_field_unflipped(operation, other) ==
    IF /\ lower(operation.model_name) = lower(other.model_name)
       /\ lower(operation.name) = lower(other.old_name)
    THEN Replacement(<<AlterField(operation.model_name, other.new_name, operation.field),
                       other>>)
    ELSE None

reduce_alter_field_rename_field(operation, other) ==
    IF /\ lower(operation.model_name) = lower(other.model_name)
       /\ lower(operation.name) = lower(other.old_name)
    THEN Replacement(<<other,
                       AlterField(operation.model_name, other.new_name, operation.field)>>)
    ELSE None

reduce_rename_field_self(operation, other) ==
    IF /\ lower(operation.model_name) = lower(other.model_name)
       /\ lower(operation.new_name) = lower(other.old_name)
    THEN Replacement(<<RenameField(operation.model_name, operation.old_name,
                                   other.new_name)>>)
    ELSE None

\* The submethods table of reduce(), in source order: <<ia, ib, om>> with
\* om named by a tag that Submethod dispatches on.
submethods ==
    << <<"CreateModel", "DeleteModel", "model_create_delete">>,
       <<"AlterModelTable", "DeleteModel", "model_alter_delete">>,
       <<"AlterUniqueTogether", "DeleteModel", "model_alter_delete">>,
       <<"AlterIndexTogether", "DeleteModel", "model_alter_delete">>,
       <<"CreateModel", "RenameModel", "model_create_rename">>,
       <<"RenameModel", "RenameModel", "model_rename_self">>,
       <<"CreateModel", "AddField", "create_model_add_field">>,
       <<"CreateModel", "AlterField", "create_model_alter_field">>,
       <<"CreateModel", "RemoveField", "create_model_remove_field">>,
       <<"AddField", "AlterField", "add_field_alter_field">>,
       <<"AddField", "RemoveField", "add_field_delete_field">>,
       <<"AlterField", "RemoveField", "alter_field_delete_field">>,
       <<"AddField", "RenameField", "add_field_rename_field">>,
       <<"AlterField", "RenameField", "alter_field_rename_field">>,
       <<"CreateModel", "RenameField", "create_model_rename_field">>,
       <<"RenameField", "RenameField", "rename_field_self">> >>

Submethod(om, operation, other) ==
    CASE om = "model_create_delete" -> reduce_model_create_delete(operation, other)
      [] om = "model_alter_delete" -> reduce_model_alter_delete(operation, other)
      [] om = "model_create_rename" -> reduce_model_create_rename(operation, other)
      [] om = "model_rename_self" -> reduce_model_rename_self(operation, other)
      [] om = "create_model_add_field" -> reduce_create_model_add_field(operation, other)
      [] om = "create_model_alter_field" -> reduce_create_model_alter_field(operation, other)
      [] om = "create_model_remove_field" -> reduce_create_model_remove_field(operation, other)
      [] om = "add_field_alter_field" -> reduce_add_field_alter_field(operation, other)
      [] om = "add_field_delete_field" -> reduce_add_field_delete_field(operation, other)
      [] om = "alter_field_delete_field" -> reduce_alter_field_delete_field(operation, other)
      [] om = "add_field_rename_field" -> reduce_add_field_rename_field(operation, other)
      [] om = "alter_field_rename_field" -> reduce_alter_field_rename_field(operation, other)
      [] om = "create_model_rename_field" -> reduce_create_model_rename_field(operation, other)
      [] om = "rename_field_self" -> reduce_rename_field_self(operation, other)

\* isinstance tested in either order
RECURSIVE reduce_either_order(_, _, _)
reduce_either_order(n, operation, other) ==
    IF n > Len(submethods) THEN None
    ELSE IF /\ isinstance(operation, {submethods[n][1]})
            /\ isinstance(other, {submethods[n][2]})
         THEN Submethod(submethods[n][3], operation, other)
         ELSE IF /\ isinstance(other, {submethods[n][1]})
                 /\ isinstance(operation, {submethods[n][2]})
              THEN Submethod(submethods[n][3], other, operation)
              ELSE reduce_either_order(n + 1, operation, other)

\* for ia, ib, om in submethods: the first entry whose classes fit decides.
RECURSIVE reduce_from(_, _, _)
reduce_from(n, operation, other) ==
    IF n > Len(submethods) THEN None
    ELSE IF /\ isinstance(operation, {submethods[n][1]})
            /\ isinstance(other, {submethods[n][2]})
         THEN Submethod(submethods[n][3], operation, other)
         ELSE reduce_from(n + 1, operation, other)

\* a table that also lists (RenameField, AlterField), undoing the swap of
\* reduce_alter_field_rename_field
reduce_swapping_back(operation, other) ==
    IF /\ operation.kind = "RenameField"
       /\ other.kind = "AlterField"
       /\ lower(operation.model_name) = lower(other.model_name)
       /\ lower(operation.new_name) = lower(other.name)
    THEN Replacement(<<AlterField(other.model_name, operation.old_name, other.field),
                       operation>>)
    ELSE reduce_from(1, operation, other)

reduce(operation, other) == reduce_from(1, operation, other)

(***************************************************************************)
(* The capability interface of the operation classes (spec section 6):     *)
(* which models and fields an operation refers to.                         *)
(***************************************************************************)
same_name(a, b) == lower(a) = lower(b)

field_points_to(field, name) == field.to # NoName /\ same_name(field.to, name)

references_model(other, name, app_label) ==
    CASE other.kind = "CreateModel" ->
            \/ same_name(other.name, name)
            \/ \E k \in 1..Len(other.fields) : field_points_to(other.fields[k][2], name)
            \/ \E k \in 1..Len(other.bases) : same_name(other.bases[k], name)
      [] other.kind \in {"DeleteModel", "AlterModelTable", "AlterUniqueTogether",
                         "AlterIndexTogether"} ->
            same_name(other.name, name)
      [] other.kind = "RenameModel" ->
            same_name(other.old_name, name) \/ same_name(other.new_name, name)
      [] other.kind \in {"AddField", "AlterField"} ->
            same_name(other.model_name, name) \/ field_points_to(other.field, name)
      [] other.kind \in {"RemoveField", "RenameField"} ->
            same_name(other.model_name, name)

references_field(other, model_name, name, app_label) ==
    CASE other.kind \in {"AddField", "AlterField", "RemoveField"} ->
            references_model(other, model_name, app_label) /\ same_name(other.name, name)
      [] other.kind = "RenameField" ->
            /\ references_model(other, model_name, app_label)
            /\ (same_name(other.old_name, name) \/ same_name(other.new_name, name))
      [] OTHER -> references_model(other, model_name, app_label)

(***************************************************************************)
(* THROUGH CHECKS                                                          *)
(***************************************************************************)
MODEL_LEVEL_OPERATIONS_with_delete ==
    {"CreateModel", "DeleteModel", "AlterModelTable", "AlterUniqueTogether",
     "AlterIndexTogether"}

MODEL_LEVEL_OPERATIONS ==
    {"CreateModel", "AlterModelTable", "AlterUniqueTogether", "AlterIndexTogether"}

FIELD_LEVEL_OPERATIONS == {"AddField", "AlterField"}

can_optimize_through(operation, other, app_label) ==
    IF /\ isinstance(operation, MODEL_LEVEL_OPERATIONS)
       /\ ~references_model(other, operation.name, app_label)
    THEN TRUE
    ELSE IF /\ isinstance(operation, FIELD_LEVEL_OPERATIONS)
            /\ ~references_field(other, operation.model_name, operation.name, app_label)
         THEN TRUE
         ELSE FALSE

(***************************************************************************)
(* optimize_inner: one pass.                                               *)
(*                                                                         *)
(* scan is the inner for loop for the operation at position i (1-based),   *)
(* looking at position j: it ends in a fold with j, at a boundary, or at   *)
(* the end of the list (the for loop's else branch).                       *)
(***************************************************************************)
\* "if result:" in place of "if result is not None:"
is_truthy(r) == r.match /\ r.ops # <<>>

is_not_None(r) == r.match

RECURSIVE scan_without_break(_, _, _, _)
scan_without_break(ops, i, j, app_label) ==
    IF j > Len(ops) THEN [outcome |-> "else", j |-> j, result |-> <<>>]
    ELSE LET r == reduce(ops[i], ops[j])
         IN IF r.match
            THEN [outcome |-> "return", j |-> j, result |-> r.ops]
            ELSE scan_without_break(ops, i, j + 1, app_label)

\* can_optimize_through consulted before reduce
RECURSIVE scan_through_first(_, _, _, _)
scan_through_first(ops, i, j, app_label) ==
    IF j > Len(ops) THEN [outcome |-> "else", j |-> j, result |-> <<>>]
    ELSE IF ~can_optimize_through(ops[i], ops[j], app_label)
         THEN [outcome |-> "break", j |-> j, result |-> <<>>]
         ELSE LET r == reduce(ops[i], ops[j])
              IN IF r.match
                 THEN [outcome |-> "return", j |-> j, result |-> r.ops]
                 ELSE scan_through_first(ops, i, j + 1, app_label)

RECURSIVE scan(_, _, _, _)
scan(ops, i, j, app_label) ==
    IF j > Len(ops) THEN [outcome |-> "else", j |-> j, result |-> <<>>]
    ELSE LET r == reduce(ops[i], ops[j])
         IN IF is_not_None(r)
            THEN [outcome |-> "return", j |-> j, result |-> r.ops]
            ELSE IF ~can_optimize_through(ops[i], ops[j], app_label)
                 THEN [outcome |-> "break", j |-> j, result |-> <<>>]
                 ELSE scan(ops, i, j + 1, app_label)

folded_keeping_other(ops, new_operations, i, s) ==
    new_operations \o s.result \o SubSeq(ops, i + 1, s.j - 1)
                   \o SubSeq(ops, s.j, Len(ops))

\* the operations between the pair put in front of the result
folded_result_last(ops, new_operations, i, s) ==
    new_operations \o SubSeq(ops, i + 1, s.j - 1) \o s.result
                   \o SubSeq(ops, s.j + 1, Len(ops))

\* new_operations on return: result, then operations[i+1:i+1+j], then
\* operations[i+j+2:] (0-based, j relative to i+1); here j is absolute.
folded(ops, new_operations, i, s) ==
    new_operations \o s.result \o SubSeq(ops, i + 1, s.j - 1)
                   \o SubSeq(ops, s.j + 1, Len(ops))

\* a pass that goes on folding in the list it has just rebuilt
RECURSIVE inner_from_folding_on(_, _, _, _)
inner_from_folding_on(ops, i, new_operations, app_label) ==
    IF i > Len(ops) THEN new_operations
    ELSE LET s == scan(ops, i, i + 1, app_label)
         IN IF s.outcome = "return"
            THEN inner_from_folding_on(folded(ops, new_operations, i, s), 1, <<>>, app_label)
            ELSE inner_from_folding_on(ops, i + 1, Append(new_operations, ops[i]), app_label)

RECURSIVE inner_from(_, _, _, _)
inner_from(ops, i, new_operations, app_label) ==
    IF i > Len(ops) THEN new_operations
    ELSE LET s == scan(ops, i, i + 1, app_label)
         IN IF s.outcome = "return"
            THEN folded(ops, new_operations, i, s)
            ELSE inner_from(ops, i + 1, Append(new_operations, ops[i]), app_label)

optimize_inner(ops, app_label) == inner_from(ops, 1, <<>>, app_label)

(***************************************************************************)
(* optimize: the loop, one pass per step.                                  *)
(***************************************************************************)
NoAppLabel == "None"
EmptySchema == <<>>
NoArgs == <<>>

\* result == operations on lists of operations
same_length(a, b) == Len(a) = Len(b)

not_shorter(a, b) == Len(a) >= Len(b)

\* "result is operations": a new list is never the same object
same_object(a, b) == FALSE

same_list(a, b) == a = b

\* optimize as a function of its argument: the same loop, run to its return
\* (at most n further passes).
RECURSIVE optimize_loop(_, _, _)
optimize_loop(ops, app_label, n) ==
    LET r == optimize_inner(ops, app_label)
    IN IF same_list(r, ops) \/ n = 0 THEN r
       ELSE optimize_loop(r, app_label, n - 1)

optimize(ops, app_label) == optimize_loop(ops, app_label, MaxIter)

\* The two callers of one MigrationOptimizer instance, and the locals of a
\* caller that has not called optimize yet.
Threads == {1, 2}

NotCalled ==
    [pc |-> "idle", input |-> <<>>, operations |-> <<>>, result |-> <<>>,
     loaded |-> 0, recorded |-> 0]

\* Before optimize is called; _iterations is whatever an earlier call left.
Init ==
    /\ pc = "idle"
    /\ input = <<>>
    /\ operations = <<>>
    /\ result = <<>>
    /\ iterations \in 0..1
    /\ schema = EmptySchema
    /\ args = NoArgs
    /\ reduced = None
    /\ threads = [t \in Threads |-> NotCalled]

\* self._iterations = 0 left out
Enter_without_reset(s, S) ==
    /\ pc' = "loop"
    /\ input' = s
    /\ operations' = s
    /\ result' = <<>>
    /\ schema' = S
    /\ UNCHANGED <<iterations, args, reduced, threads>>

\* optimize(s) is entered: self._iterations = 0
Enter(s, S) ==
    /\ pc' = "loop"
    /\ input' = s
    /\ operations' = s
    /\ result' = <<>>
    /\ iterations' = 0
    /\ schema' = S
    /\ UNCHANGED <<args, reduced, threads>>

\* one turn of the while loop (MaxIter caps the pass counter of the model;
\* a run that reaches it stays in the loop for ever)
Iterate ==
    /\ pc = "loop"
    /\ iterations < MaxIter
    /\ LET r == optimize_inner(operations, NoAppLabel)
       IN /\ result' = r
          /\ iterations' = iterations + 1
          /\ IF same_list(r, operations)
             THEN pc' = "done" /\ UNCHANGED operations
             ELSE pc' = "loop" /\ operations' = r
    /\ UNCHANGED <<input, schema, args, reduced, threads>>

(***************************************************************************)
(* Spec: optimize on mixed sequences of up to MaxLen operations.           *)
(***************************************************************************)
DriverOps ==
    {CreateModel(Pony, <<>>, 0, <<>>),
     DeleteModel(Pony), DeleteModel(pony),
     AlterModelTable(Pony, 1), AlterModelTable(Other, 1),
     AlterUniqueTogether(pony, 1),
     AlterIndexTogether(Pony, 1),
     RenameModel(Pony, Horse), RenameModel(horse, Pony),
     AddField(Pony, age, IntegerField),
     AlterField(Other, fk, ForeignKey(Pony)),
     AlterField(Pony, age, CharField),
     RemoveField(pony, age),
     RenameField(Pony, age, nick), RenameField(pony, nick, age)}

Call == pc = "idle" /\ \E n \in 0..MaxLen : \E s \in [1..n -> DriverOps] : Enter(s, EmptySchema)

Next == Call \/ Iterate

Spec == Init /\ [][Next]_vars

(***************************************************************************)
(* FairSpec: the loop keeps running once entered; inputs are chains of up  *)
(* to MaxChain AddField, AlterField, RenameField and RemoveField           *)
(* operations on the fields of one model.                                  *)
(***************************************************************************)
ChainFields == {age, nick}

ChainOps ==
    {AddField(Pony, age, IntegerField), RemoveField(Pony, age),
     RenameField(Pony, age, nick), RenameField(Pony, nick, age)}
        \cup {AlterField(Pony, f, CharField) : f \in ChainFields}

CallChain == pc = "idle" /\ \E n \in 0..MaxChain : \E s \in [1..n -> ChainOps] : Enter(s, EmptySchema)

NextFair == CallChain \/ Iterate

FairSpec == Init /\ [][NextFair]_vars /\ WF_vars(Iterate)

\* the same chains, without the fairness
SpecChain == Init /\ [][NextFair]_vars

(***************************************************************************)
(* SpecRename: optimize on up to MaxRenames RenameModel operations.        *)
(***************************************************************************)
RenameNames == {Pony, Horse, horse, Equine}

RenameOps == {RenameModel(a, b) : a \in RenameNames, b \in RenameNames}

CallRename == pc = "idle" /\ \E n \in 0..MaxRenames : \E s \in [1..n -> RenameOps] : Enter(s, EmptySchema)

NextRename == CallRename \/ Iterate

SpecRename == Init /\ [][NextRename]_vars

(***************************************************************************)
(* SpecNet: optimize on up to MaxNet operations on the model Pony and its  *)
(* fields, together with a schema to run them against.                     *)
(***************************************************************************)
NetOps ==
    {CreateModel(Pony, <<>>, 0, <<>>),
     CreateModel(Pony, << <<age, IntegerField>> >>, 0, <<>>),
     DeleteModel(Pony),
     RemoveField(Pony, age), RemoveField(Pony, nick),
     RenameField(Pony, age, nick), RenameField(Pony, nick, age)}
        \cup {AddField(Pony, f, d) : f \in {age, nick}, d \in FieldDefs}
        \cup {AlterField(Pony, f, d) : f \in {age, nick}, d \in FieldDefs}

NetSchemas ==
    {[m \in {lower(Pony)} |-> model] :
        model \in {[exists |-> FALSE, fields |-> <<>>]}
                  \cup {[exists |-> TRUE, fields |-> fl] :
                           fl \in {<<>>,
                                   << <<age, IntegerField>> >>,
                                   << <<nick, IntegerField>> >>,
                                   << <<age, IntegerField>>, <<nick, CharField>> >>}}}

CallNet ==
    /\ pc = "idle"
    /\ \E n \in 0..MaxNet : \E s \in [1..n -> NetOps], S \in NetSchemas : Enter(s, S)

NextNet == CallNet \/ Iterate

SpecNet == Init /\ [][NextNet]_vars

(***************************************************************************)
(* SpecReduce: reduce on every ordered pair of operations of every kind.   *)
(***************************************************************************)
ModelNames == {Pony, pony, Other}
FieldNames == {age, Age, nick}
FieldLists ==
    {<<>>,
     << <<age, IntegerField>> >>,
     << <<Age, IntegerField>>, <<nick, CharField>> >>}

AllOps ==
    {CreateModel(m, fl, 0, <<>>) : m \in ModelNames, fl \in FieldLists}
        \cup {DeleteModel(m) : m \in ModelNames}
        \cup {AlterModelTable(m, 1) : m \in ModelNames}
        \cup {AlterUniqueTogether(m, 1) : m \in ModelNames}
        \cup {AlterIndexTogether(m, 1) : m \in ModelNames}
        \cup {RenameModel(a, b) : a \in ModelNames, b \in ModelNames}
        \cup {AddField(m, f, d) : m \in ModelNames, f \in FieldNames, d \in FieldDefs}
        \cup {AlterField(m, f, d) : m \in ModelNames, f \in FieldNames, d \in FieldDefs}
        \cup {RemoveField(m, f) : m \in ModelNames, f \in FieldNames}
        \cup {RenameField(m, f, g) : m \in ModelNames, f \in FieldNames, g \in FieldNames}

\* reduce(operation, other) is called and returns
ReduceCall ==
    /\ pc = "idle"
    /\ \E operation \in AllOps, other \in AllOps :
        /\ pc' = "reduced"
        /\ args' = <<operation, other>>
        /\ reduced' = reduce(operation, other)
        /\ UNCHANGED <<input, operations, result, iterations, schema, threads>>

NextReduce == ReduceCall

SpecReduce == Init /\ [][NextReduce]_vars

(***************************************************************************)
(* SpecConc: two calls of optimize on one MigrationOptimizer instance, on  *)
(* inputs of their own of up to MaxConc operations.  operations and result *)
(* are locals of each call; _iterations is an attribute of the instance.   *)
(* "self._iterations += 1" loads the attribute, adds one and stores it,    *)
(* and the other call may run between the load and the store.              *)
(***************************************************************************)
ConcOps ==
    {CreateModel(Pony, <<>>, 0, <<>>), AlterModelTable(Pony, 1), DeleteModel(pony)}

\* line 36: self._iterations = 0
TEnter(t, s) ==
    /\ threads' = [threads EXCEPT ![t] = [NotCalled EXCEPT !.pc = "inner",
                                                          !.input = s,
                                                          !.operations = s]]
    /\ iterations' = 0
    /\ UNCHANGED <<pc, input, operations, result, schema, args, reduced>>

CallConc ==
    \E t \in Threads :
        /\ threads[t].pc = "idle"
        /\ \E n \in 0..MaxConc : \E s \in [1..n -> ConcOps] : TEnter(t, s)

\* line 38, and the load of self._iterations of line 39
TPass(t) ==
    /\ threads[t].pc = "inner"
    /\ threads' = [threads EXCEPT
                      ![t].result = optimize_inner(threads[t].operations, NoAppLabel),
                      ![t].loaded = iterations,
                      ![t].pc = "store"]
    /\ UNCHANGED <<pc, input, operations, result, iterations, schema, args, reduced>>

\* the store of line 39, and lines 40-42; recorded is _iterations as the
\* call leaves it when it returns
TStore(t) ==
    /\ threads[t].pc = "store"
    /\ iterations' = threads[t].loaded + 1
    /\ IF same_list(threads[t].result, threads[t].operations)
       THEN threads' = [threads EXCEPT ![t].pc = "done",
                                       ![t].recorded = threads[t].loaded + 1]
       ELSE threads' = [threads EXCEPT ![t].pc = "inner",
                                       ![t].operations = threads[t].result]
    /\ UNCHANGED <<pc, input, operations, result, schema, args, reduced>>

NextConc ==
    \/ CallConc
    \/ \E t \in Threads : TPass(t)
    \/ \E t \in Threads : TStore(t)

SpecConc == Init /\ [][NextConc]_vars


(***************************************************************************)
(* The net effect of operations on an abstract schema: a function from     *)
(* case-folded model names to [exists, fields], fields an ordered list of  *)
(* <<case-folded field name, field>>.                                      *)
(***************************************************************************)
Failed(S) == [ok |-> FALSE, schema |-> S]
Applied(S) == [ok |-> TRUE, schema |-> S]

has_model(S, name) == lower(name) \in DOMAIN S /\ S[lower(name)].exists

has_field(S, model_name, name) ==
    /\ has_model(S, model_name)
    /\ \E k \in 1..Len(S[lower(model_name)].fields) :
           S[lower(model_name)].fields[k][1] = lower(name)

with_fields(S, model_name, fields) ==
    [S EXCEPT ![lower(model_name)] = [exists |-> TRUE, fields |-> fields]]

apply_operation(op, S) ==
    CASE op.kind = "CreateModel" ->
            IF lower(op.name) \notin DOMAIN S \/ has_model(S, op.name) THEN Failed(S)
            ELSE Applied(with_fields(S, op.name,
                     [k \in 1..Len(op.fields) |-> <<lower(op.fields[k][1]), op.fields[k][2]>>]))
      [] op.kind = "DeleteModel" ->
            IF ~has_model(S, op.name) THEN Failed(S)
            ELSE Applied([S EXCEPT ![lower(op.name)] = [exists |-> FALSE, fields |-> <<>>]])
      [] op.kind = "AddField" ->
            IF ~has_model(S, op.model_name) \/ has_field(S, op.model_name, op.name)
            THEN Failed(S)
            ELSE Applied(with_fields(S, op.model_name,
                     Append(S[lower(op.model_name)].fields, <<lower(op.name), op.field>>)))
      [] op.kind = "AlterField" ->
            IF ~has_field(S, op.model_name, op.name) THEN Failed(S)
            ELSE LET fs == S[lower(op.model_name)].fields
                 IN Applied(with_fields(S, op.model_name,
                        [k \in 1..Len(fs) |->
                            IF fs[k][1] = lower(op.name) THEN <<fs[k][1], op.field>>
                            ELSE fs[k]]))
      [] op.kind = "RemoveField" ->
            IF ~has_field(S, op.model_name, op.name) THEN Failed(S)
            ELSE Applied(with_fields(S, op.model_name,
                     fields_without(S[lower(op.model_name)].fields, op.name)))
      [] op.kind = "RenameField" ->
            IF \/ ~has_field(S, op.model_name, op.old_name)
               \/ /\ has_field(S, op.model_name, op.new_name)
                  /\ lower(op.new_name) # lower(op.old_name)
            THEN Failed(S)
            ELSE LET fs == S[lower(op.model_name)].fields
                 IN Applied(with_fields(S, op.model_name,
                        [k \in 1..Len(fs) |->
                            IF fs[k][1] = lower(op.old_name)
                            THEN <<lower(op.new_name), fs[k][2]>>
                            ELSE fs[k]]))
      [] OTHER -> Failed(S)

RECURSIVE apply_all(_, _)
apply_all(ops, S) ==
    IF ops = <<>> THEN Applied(S)
    ELSE LET first == apply_operation(Head(ops), S)
         IN IF first.ok THEN apply_all(Tail(ops), first.schema) ELSE first

(***************************************************************************)
(* Vocabulary of the properties: the pairs a pass may fold.                *)
(***************************************************************************)
\* position k is non-matching with position i and passable for it
Passable(ops, i, k) ==
    /\ ~reduce(ops[i], ops[k]).match
    /\ can_optimize_through(ops[i], ops[k], NoAppLabel)

\* position k is a barrier for position i: non-matching and not passable
Barrier(ops, i, k) ==
    /\ ~reduce(ops[i], ops[k]).match
    /\ ~can_optimize_through(ops[i], ops[k], NoAppLabel)

\* i < j fold and everything strictly between them is passable for i
Foldable(ops, i, j) ==
    /\ i < j
    /\ reduce(ops[i], ops[j]).match
    /\ \A k \in (i + 1)..(j - 1) : Passable(ops, i, k)

\* the list after folding positions i < j
FoldOf(ops, i, j) ==
    SubSeq(ops, 1, i - 1) \o reduce(ops[i], ops[j]).ops
        \o SubSeq(ops, i + 1, j - 1) \o SubSeq(ops, j + 1, Len(ops))

Positions(ops) == 1..Len(ops)

\* C3: each pass's output is no longer than its input, the current sequence
\* is never longer than the original input, and so neither is the result
\* that optimize returns.
C3_LengthNeverIncreases ==
    [][pc = "loop" =>
          /\ Len(result') <= Len(operations)
          /\ Len(operations') <= Len(input)
          /\ (pc' = "done" => Len(result') <= Len(input))]_vars

C3_Witness ==
    /\ pc = "done"
    /\ iterations >= 3
    /\ Len(result) < Len(input)
    /\ Len(result) >= 1

\* C4: what optimize returns is a fixpoint of optimize_inner, and it has no
\* pair of positions that a pass could fold.
C4_TrueFixpoint ==
    pc = "done" =>
        /\ optimize_inner(result, NoAppLabel) = result
        /\ \A i, j \in Positions(result) : ~Foldable(result, i, j)

C4_Witness ==
    /\ pc = "done"
    /\ iterations >= 2
    /\ Len(result) >= 2
    /\ result # input


\* C5: optimizing what optimize returned gives it back unchanged.
C5_Idempotent ==
    pc = "done" => optimize(result, NoAppLabel) = result

C5_Witness ==
    /\ pc = "done"
    /\ iterations >= 2
    /\ result # input
    /\ result # <<>>
    /\ optimize(result, NoAppLabel) = result

BarrierExample ==
    <<CreateModel(Pony, <<>>, 0, <<>>),
      AlterField(Other, fk, ForeignKey(Pony)),
      DeleteModel(Pony)>>

\* C6: a pass either leaves the list alone or folds a pair i < j with no
\* barrier for i strictly between them; and optimize returns
\* [CreateModel(Pony), AlterField(Other, fk -> Pony), DeleteModel(Pony)]
\* as it is.
C6_BarrierCorrectness ==
    [][pc = "loop" =>
          /\ \/ result' = operations
             \/ \E i, j \in Positions(operations) :
                   /\ Foldable(operations, i, j)
                   /\ \A k \in (i + 1)..(j - 1) : ~Barrier(operations, i, k)
                   /\ result' = FoldOf(operations, i, j)
          /\ (pc' = "done" /\ input = BarrierExample => result' = BarrierExample)]_vars

C6_Witness ==
    /\ pc = "done"
    /\ input = BarrierExample
    /\ result = BarrierExample
    /\ Barrier(input, 1, 2)
    /\ reduce(input[1], input[3]).match

CancelModelExample == <<CreateModel(Pony, <<>>, 0, <<>>), DeleteModel(pony)>>
CancelFieldExample == <<AddField(Pony, age, IntegerField), RemoveField(pony, age)>>

\* the first pair in scan order that a pass may fold
IsFirstFold(ops, i, j) ==
    /\ Foldable(ops, i, j)
    /\ \A a, b \in Positions(ops) : Foldable(ops, a, b) => (a > i \/ (a = i /\ b >= j))

\* C7: a pass whose first foldable pair reduces to the empty list removes
\* exactly that pair; a pass with no foldable pair removes nothing; so
\* optimize([CreateModel(Pony), DeleteModel(pony)]) = [] and
\* optimize([AddField(Pony, age), RemoveField(pony, age)]) = [].
C7_OutcomesDistinct ==
    [][pc = "loop" =>
          /\ \A i, j \in Positions(operations) :
                IsFirstFold(operations, i, j) /\ reduce(operations[i], operations[j]).ops = <<>>
                    => result' = SubSeq(operations, 1, i - 1)
                                   \o SubSeq(operations, i + 1, j - 1)
                                   \o SubSeq(operations, j + 1, Len(operations))
          /\ (\A i, j \in Positions(operations) : ~reduce(operations[i], operations[j]).match)
                => result' = operations
          /\ (pc' = "done" /\ input \in {CancelModelExample, CancelFieldExample}
                => result' = <<>>)]_vars

C7_Witness ==
    /\ pc = "done"
    /\ input = CancelModelExample
    /\ result = <<>>
    /\ iterations = 2


\* C2: once entered, the loop of optimize reaches its return.
C2_Terminates == []<>(pc # "loop")

C2_Witness ==
    /\ pc = "done"
    /\ Len(input) >= 3
    /\ input[1].kind = "AlterField"
    /\ \A k \in 2..Len(input) : input[k].kind = "RenameField"
    /\ result[Len(result)].kind = "AlterField"
    /\ iterations >= 4

IsRenameChain(s) ==
    /\ Len(s) >= 2
    /\ \A k \in 1..Len(s) : s[k].kind = "RenameModel"
    /\ \A k \in 1..(Len(s) - 1) : lower(s[k].new_name) = lower(s[k + 1].old_name)

\* C10: a chain of two or more RenameModel operations, each new_name equal
\* to the next old_name under case-folding, is optimized to the single
\* RenameModel(first.old_name, last.new_name).
C10_RenameChaining ==
    pc = "done" /\ IsRenameChain(input) =>
        result = <<RenameModel(input[1].old_name, input[Len(input)].new_name)>>

C10_Witness ==
    /\ pc = "done"
    /\ input = <<RenameModel(Pony, Horse), RenameModel(horse, Equine)>>
    /\ result = <<RenameModel(Pony, Equine)>>


\* the rule table of the specification: kinds, and the names that must agree
ModelAlterKinds == {"AlterModelTable", "AlterUniqueTogether", "AlterIndexTogether"}

ListedPairs ==
    {<<"CreateModel", "DeleteModel">>, <<"CreateModel", "RenameModel">>,
     <<"RenameModel", "RenameModel">>, <<"CreateModel", "AddField">>,
     <<"CreateModel", "AlterField">>, <<"CreateModel", "RenameField">>,
     <<"CreateModel", "RemoveField">>, <<"AddField", "AlterField">>,
     <<"AddField", "RemoveField">>, <<"AlterField", "RemoveField">>,
     <<"AddField", "RenameField">>, <<"AlterField", "RenameField">>,
     <<"RenameField", "RenameField">>}
        \cup {<<k, "DeleteModel">> : k \in ModelAlterKinds}

NameCondition(op, other) ==
    LET pair == <<op.kind, other.kind>>
    IN CASE pair[1] \in ModelAlterKinds \cup {"CreateModel"} /\ pair[2] = "DeleteModel" ->
               same_name(op.name, other.name)
         [] pair = <<"CreateModel", "RenameModel">> -> same_name(op.name, other.old_name)
         [] pair = <<"RenameModel", "RenameModel">> -> same_name(op.new_name, other.old_name)
         [] pair[1] = "CreateModel"
              /\ pair[2] \in {"AddField", "AlterField", "RenameField", "RemoveField"} ->
               same_name(op.name, other.model_name)
         [] pair[1] \in {"AddField", "AlterField"} /\ pair[2] \in {"AlterField", "RemoveField"} ->
               same_name(op.model_name, other.model_name) /\ same_name(op.name, other.name)
         [] pair[1] \in {"AddField", "AlterField"} /\ pair[2] = "RenameField" ->
               same_name(op.model_name, other.model_name) /\ same_name(op.name, other.old_name)
         [] pair = <<"RenameField", "RenameField">> ->
               /\ same_name(op.model_name, other.model_name)
               /\ same_name(op.new_name, other.old_name)
         [] OTHER -> FALSE

\* C8 (as claimed): folding AlterField, RenameField or RemoveField into a
\* CreateModel of the same model acts on the field whose name equals the
\* operation's field name under case-folding.
C8_FieldNamesCaseInsensitive ==
    (/\ pc = "reduced"
     /\ args[1].kind = "CreateModel"
     /\ args[2].kind \in {"AlterField", "RenameField", "RemoveField"}
     /\ same_name(args[1].name, args[2].model_name))
    => LET operation == args[1]
           other == args[2]
           n == Len(operation.fields)
           named(k, name) == same_name(operation.fields[k][1], name)
           expected ==
               CASE other.kind = "AlterField" ->
                       [k \in 1..n |->
                           <<operation.fields[k][1],
                             IF named(k, other.name) THEN other.field
                             ELSE operation.fields[k][2]>>]
                 [] other.kind = "RenameField" ->
                       [k \in 1..n |->
                           <<IF named(k, other.old_name) THEN other.new_name
                             ELSE operation.fields[k][1],
                             operation.fields[k][2]>>]
                 [] other.kind = "RemoveField" ->
                       fields_without(operation.fields, other.name)
       IN reduced = Replacement(<<CreateModel(operation.name, expected,
                                              operation.options, operation.bases)>>)

\* C9: reduce matches only for one of the 16 listed pairs of kinds, and only
\* when the names the rule compares agree under case-folding.
C9_RuleTableComplete ==
    pc = "reduced" /\ reduced.match =>
        /\ <<args[1].kind, args[2].kind>> \in ListedPairs
        /\ NameCondition(args[1], args[2])

C9_Witness ==
    /\ pc = "reduced"
    /\ args[1].kind = "DeleteModel"
    /\ args[2].kind = "CreateModel"
    /\ same_name(args[1].name, args[2].name)
    /\ reduced = None


\* C1 (as claimed): whenever the input applies to the schema without error,
\* so does what optimize returns, and both leave the same final schema.
C1_NetEffectPreserved ==
    (pc = "done" /\ apply_all(input, schema).ok) =>
        /\ apply_all(result, schema).ok
        /\ apply_all(result, schema).schema = apply_all(input, schema).schema


\* the number of folds optimize performs on s: fold the first foldable pair
\* until there is none (at most n times)
RECURSIVE FoldCount(_, _)
FoldCount(s, n) ==
    IF n = 0 \/ \A i, j \in Positions(s) : ~Foldable(s, i, j) THEN 0
    ELSE LET pair == CHOOSE p \in Positions(s) \X Positions(s) : IsFirstFold(s, p[1], p[2])
         IN 1 + FoldCount(FoldOf(s, pair[1], pair[2]), n - 1)

\* pairs of positions of s holding an AlterField before a RenameField
AlterBeforeRename(s) ==
    {p \in Positions(s) \X Positions(s) :
        p[1] < p[2] /\ s[p[1]].kind = "AlterField" /\ s[p[2]].kind = "RenameField"}

\* C12 (as claimed): when optimize returns, the pass counter is at most the
\* length of the input.
C12_PassesAtMostLength ==
    pc = "done" => iterations <= Len(input)

\* C12 (amended): the pass counter never exceeds 1 + the length of the input
\* + the number of (AlterField, later RenameField) pairs in the input.
C12_PassesBounded ==
    pc \in {"loop", "done"} =>
        iterations <= 1 + Len(input) + Cardinality(AlterBeforeRename(input))

C12_Witness ==
    /\ pc = "done"
    /\ Len(input) = 3
    /\ iterations = 4
    /\ Cardinality(AlterBeforeRename(input)) = 2

\* C18: when optimize returns, the pass counter is the number of folds
\* performed plus one, whatever an earlier call left in it, and so at least
\* 1; a pass changes the list exactly when it has a pair to fold, and only
\* the pass that changes nothing ends the loop.
C18_CounterIsFoldsPlusOne ==
    [][/\ pc = "idle" /\ pc' = "loop" => iterations' = 0
       /\ pc = "loop" =>
            /\ iterations' = iterations + 1
            /\ (result' # operations) <=>
                   (\E i, j \in Positions(operations) : Foldable(operations, i, j))
            /\ (pc' = "done") <=> (result' = operations)
            /\ pc' = "done" =>
                   /\ iterations' = FoldCount(input, MaxIter) + 1
                   /\ iterations' >= 1]_vars

C18_Witness ==
    /\ pc = "done"
    /\ input = <<>>
    /\ iterations = 1


\* C13: a pass that folds positions i < j returns the operations before i,
\* the replacement, the operations strictly between i and j, and the
\* operations after j, each unchanged and in order; a pass with no pair to
\* fold returns its input.
C13_FoldShape ==
    [][pc = "loop" =>
          /\ \/ result' = operations
             \/ \E i, j \in Positions(operations) :
                   /\ i < j
                   /\ reduce(operations[i], operations[j]).match
                   /\ SubSeq(result', 1, i - 1) = SubSeq(operations, 1, i - 1)
                   /\ LET n == Len(reduce(operations[i], operations[j]).ops)
                      IN /\ Len(result') = Len(operations) - 2 + n
                         /\ SubSeq(result', i, i + n - 1)
                               = reduce(operations[i], operations[j]).ops
                         /\ SubSeq(result', i + n, Len(result'))
                               = SubSeq(operations, i + 1, j - 1)
                                    \o SubSeq(operations, j + 1, Len(operations))
          /\ \A i, j \in Positions(operations) :
                IsFirstFold(operations, i, j) => result' = FoldOf(operations, i, j)
          /\ (\A i, j \in Positions(operations) : ~Foldable(operations, i, j))
                => result' = operations]_vars

C13_Witness ==
    /\ pc = "done"
    /\ iterations = 2
    /\ input = <<AlterModelTable(Pony, 1), AlterModelTable(Other, 1), DeleteModel(pony)>>
    /\ result = <<DeleteModel(pony), AlterModelTable(Other, 1)>>

\* C14: a pass folds at most one pair, the first in scan order: its output
\* is its input or the fold of the first foldable pair, and is shorter than
\* its input by at most two.
C14_OneFoldPerPass ==
    [][pc = "loop" =>
          /\ Len(operations) - 2 <= Len(result')
          /\ Len(result') <= Len(operations)
          /\ result' # operations =>
                \E i, j \in Positions(operations) :
                    /\ IsFirstFold(operations, i, j)
                    /\ result' = FoldOf(operations, i, j)
                    /\ \A a, b \in Positions(operations) :
                          Foldable(operations, a, b) => a >= i]_vars

C14_Witness ==
    /\ pc = "loop"
    /\ iterations = 1
    /\ input = <<AddField(Pony, age, IntegerField), AlterField(Pony, age, CharField),
                 RemoveField(pony, age)>>
    /\ Foldable(input, 1, 2)
    /\ Foldable(input, 2, 3)
    /\ operations = <<AddField(Pony, age, CharField), RemoveField(pony, age)>>

\* C15: the first pair the scan reaches with a matching reduce is folded
\* even when can_optimize_through would refuse to pass the second operation.
C15_FoldBeforeThrough ==
    [][pc = "loop" =>
          \A i, j \in Positions(operations) :
              (/\ IsFirstFold(operations, i, j)
               /\ ~can_optimize_through(operations[i], operations[j], NoAppLabel))
              => result' = FoldOf(operations, i, j)]_vars

C15_Witness ==
    /\ pc = "done"
    /\ input = <<CreateModel(Pony, <<>>, 0, <<>>), DeleteModel(Pony)>>
    /\ ~can_optimize_through(input[1], input[2], NoAppLabel)
    /\ result = <<>>

NeverPassing == {"DeleteModel", "RenameModel", "RemoveField", "RenameField"}

RenameAcrossExample ==
    <<RenameModel(Pony, Horse), AlterModelTable(Other, 1), RenameModel(horse, Pony)>>

\* C16: can_optimize_through is false for a DeleteModel, RenameModel,
\* RemoveField or RenameField whatever the other operation is; when a pass
\* folds such an operation with a later one, that one is its neighbour; and
\* [RenameModel(Pony, Horse), AlterModelTable(Other), RenameModel(horse, Pony)]
\* is returned as it is.
C16_NeverPassing ==
    [][pc = "loop" =>
          /\ \A i, k \in Positions(operations) :
                operations[i].kind \in NeverPassing
                    => ~can_optimize_through(operations[i], operations[k], NoAppLabel)
          /\ \A i, j \in Positions(operations) :
                (/\ operations[i].kind \in NeverPassing
                 /\ j > i + 1
                 /\ reduce(operations[i], operations[j]).match
                 /\ \A a, b \in Positions(operations) :
                       (a < b /\ <<a, b>> # <<i, j>>)
                           => ~reduce(operations[a], operations[b]).match)
                => result' = operations
          /\ (input = RenameAcrossExample /\ pc' = "done") => result' = input]_vars

C16_Witness ==
    /\ pc = "done"
    /\ input = RenameAcrossExample
    /\ result = input
    /\ iterations = 1
    /\ reduce(input[1], input[3]).match

\* the RenameField operations after position k
RenamesAfter(s, k) == {p \in Positions(s) : p > k /\ s[p].kind = "RenameField"}

\* C17: a pass that folds an AlterField at i with a RenameField at j keeps
\* the length, puts the RenameField at i and right after it an AlterField of
\* the new name with the old field, leaves one RenameField fewer after the
\* AlterField, and reduce does not match the swapped pair.
C17_SwapDecreasesMeasure ==
    [][pc = "loop" =>
          \A i, j \in Positions(operations) :
              (/\ IsFirstFold(operations, i, j)
               /\ operations[i].kind = "AlterField"
               /\ operations[j].kind = "RenameField")
              => /\ Len(result') = Len(operations)
                 /\ result'[i] = operations[j]
                 /\ result'[i + 1] = AlterField(operations[i].model_name,
                                                operations[j].new_name,
                                                operations[i].field)
                 /\ Cardinality(RenamesAfter(result', i + 1))
                       = Cardinality(RenamesAfter(operations, i)) - 1
                 /\ ~reduce(result'[i], result'[i + 1]).match]_vars

C17_Witness ==
    /\ pc = "loop"
    /\ iterations = 1
    /\ input = <<AlterField(Pony, age, CharField), AlterField(Pony, nick, CharField),
                 RenameField(Pony, age, nick)>>
    /\ operations = <<RenameField(Pony, age, nick), AlterField(Pony, nick, CharField),
                      AlterField(Pony, nick, CharField)>>


\* the value of _iterations when optimize(s) returns, run on its own
PassesAlone(s) == FoldCount(s, MaxIter) + 1

\* C11: when two calls of optimize on one instance interleave, each returns
\* what optimize returns for its input on its own, and _iterations as the
\* call leaves it is the number of passes of that call on its own.
C11_ConcurrentCallsIndependent ==
    \A t \in Threads :
        threads[t].pc = "done" =>
            /\ threads[t].result = optimize(threads[t].input, NoAppLabel)
            /\ threads[t].recorded = PassesAlone(threads[t].input)


=============================================================================
